---- MODULE Spec2Model ----
(***************************************************************************)
(* Model of the sequence-batch generator of classic_dl/lstm/utils.py:      *)
(* generate_sequences (a Python generator) and generate_indices (the pure  *)
(* index arithmetic it calls).  One action is one call of next() on the    *)
(* generator: it runs the body from the point where the generator is       *)
(* suspended to the next yield, to the raise, or to the end of the body.   *)
(*                                                                         *)
(* Arrays are 0-based in the source; a numpy array of indices is modelled  *)
(* as a sequence of integers, so element k (0-based) of the array is       *)
(* element k+1 of the sequence.  A yielded batch is modelled by the index  *)
(* arrays (iis, tis) that select it: the data are inputs[iis] and          *)
(* targets[tis].                                                           *)
(***************************************************************************)
EXTENDS Integers, Sequences, FiniteSets

\* Bounds of the explored inputs.
MaxLen == 4
MaxStride == 2
MaxAhead == 1
MaxStart == 1
MaxRate == 1
MaxBatch == 3
MaxEpochs == 2
MaxFactor == 1

\* stride: the malformed values 0 and -1 and the well-formed 1..MaxStride.
Strides == (0 - 1)..MaxStride

VARIABLES
    len_data,             \* targets[0].shape[0]
    length, target_steps_ahead, sampling_rate, stride, start_index,
    shuffle, epochs, batch_size, subsample, subsampling_factor,
    pc,                   \* where the generator is suspended
    err,                  \* the message of the exception raised, "" when none
    inputs_indices_seq,   \* sequence of windows, a window is a sequence of positions
    target_indices_seq,   \* sequence of target positions
    orig_inputs, orig_targets, \* the index arrays as generate_indices returned them
    n_batches_full, n_residual_samples,
    e, b,                 \* loop counters of the epoch loop and of the batch loop
    first,                \* the first value yielded (-1 before it)
    out,                  \* the last batch yielded: <<iis, tis>>
    n_yielded,            \* number of batches yielded after the first value
    epoch_out             \* the (window, target) pairs yielded in the current epoch

params == <<len_data, length, target_steps_ahead, sampling_rate, stride,
            start_index, shuffle, epochs, batch_size, subsample, subsampling_factor>>
arrays == <<inputs_indices_seq, target_indices_seq>>
origs == <<orig_inputs, orig_targets>>
counts == <<n_batches_full, n_residual_samples>>
vars == <<params, pc, err, arrays, origs, counts, e, b, first, out, n_yielded, epoch_out>>

----------------------------------------------------------------------------
\* numpy helpers

Min(a, c) == IF a < c THEN a ELSE c

\* Number of elements of np.arange(lo, hi, step), step >= 1.
ARangeLen(lo, hi, step) == IF hi > lo THEN (hi - lo + step - 1) \div step ELSE 0

\* np.arange(lo, hi, step), step >= 1.
ARange(lo, hi, step) == [k \in 1..ARangeLen(lo, hi, step) |-> lo + (k - 1) * step]

\* a[strt:stop] for 0 <= strt (Python clamps stop to the length).
Slice(a, strt, stop) == SubSeq(a, strt + 1, Min(stop, Len(a)))

\* a[meta] for a sequence meta of 0-based indices.
Take(a, meta) == [k \in 1..Len(meta) |-> a[meta[k] + 1]]

\* np.sort of a set of distinct integers, as a sequence.
RECURSIVE SortSet(_)
SortSet(S) ==
    IF S = {} THEN <<>>
    ELSE LET m == CHOOSE x \in S : \A y \in S : x <= y
         IN  <<m>> \o SortSet(S \ {m})

\* The orders in which the elements of the set S can be listed.
RECURSIVE Orders(_)
Orders(S) ==
    IF S = {} THEN {<<>>}
    ELSE UNION {{<<x>> \o p : p \in Orders(S \ {x})} : x \in S}

\* The results of np.random.permutation(np.arange(n)): the permutations of
\* 0..n-1, as sequences of 0-based indices.
Permutations0(n) == Orders(0..(n - 1))

\* The (window, target) pairs selected by the index arrays iis and tis.
Pairs(iis, tis) == [k \in 1..Min(Len(iis), Len(tis)) |-> <<iis[k], tis[k]>>]

----------------------------------------------------------------------------
\* generate_indices

\* start_index = start_index + length
StartIndex(si, len) == si + len

\* The number of sequences with the last timestep of the data left out.
NumberOfSequencesShort(ld, start, tsa, st) == (ld - 1 - start - tsa) \div st

\* number_of_sequences = (len_data - start_index - target_steps_ahead) // stride
NumberOfSequences(ld, start, tsa, st) == (ld - start - tsa) \div st

EndIndex(start, nseq, tsa, st) == start + nseq * st + tsa

\* np.arange(start_index, end_index - target_steps_ahead + 1, stride)
WindowEnds(start, end, tsa, st) == ARange(start, end - tsa + 1, st)

\* [np.arange(idx - length, idx, sampling_rate) for idx in ...]
InputsIndices(start, end, len, tsa, rate, st) ==
    LET ends == WindowEnds(start, end, tsa, st)
    IN  [k \in 1..Len(ends) |-> ARange(ends[k] - len, ends[k], rate)]

\* np.arange(start_index + target_steps_ahead - 1, end_index, stride)
TargetIndices(start, end, tsa, st) == ARange(start + tsa - 1, end, st)

\* The values targets[0] can have, each reduced to what the code reads of it:
\* lab[t] is targets[0][t] >= subsampling_cutoff_threshold.
Labels(ld) == [0..(ld - 1) -> BOOLEAN]

\* The meta-indices (0-based) of the targets that are positive / negative.
PositiveMetaIdxs(tis, lab) == {k \in 0..(Len(tis) - 1) : lab[tis[k + 1]]}
NegativeMetaIdxs(tis, lab) == {k \in 0..(Len(tis) - 1) : ~lab[tis[k + 1]]}

\* min(int(n_positive_class * subsampling_factor), negative_meta_idxs.shape[0])
NNegativeKeep(tis, lab, factor) ==
    Min(Cardinality(PositiveMetaIdxs(tis, lab)) * factor,
        Cardinality(NegativeMetaIdxs(tis, lab)))

\* The results np.random.choice(negative_meta_idxs, n, replace=False) can have.
NegativeChoices(tis, lab, factor) ==
    {s \in SUBSET NegativeMetaIdxs(tis, lab) :
        Cardinality(s) = NNegativeKeep(tis, lab, factor)}

\* The exception generate_indices raises, "" when it returns.
GenerateIndicesError(ld, len, tsa, st, si) ==
    IF st = 0 THEN "ZeroDivisionError: integer division or modulo by zero"
    ELSE LET start == StartIndex(si, len)
             end == EndIndex(start, NumberOfSequences(ld, start, tsa, st), tsa, st)
         IN  IF start > end THEN "ValueError: start_index+length > end_index is disallowed"
             ELSE ""

\* The pairs <<inputs_indices_seq, target_indices_seq>> generate_indices can return.
GenerateIndices(ld, lab, len, tsa, rate, st, si, sub, factor) ==
    LET start == StartIndex(si, len)
        end == EndIndex(start, NumberOfSequences(ld, start, tsa, st), tsa, st)
        iis == InputsIndices(start, end, len, tsa, rate, st)
        tis == TargetIndices(start, end, tsa, st)
    IN  IF sub
        THEN {<<Take(iis, meta), Take(tis, meta)>> :
                meta \in {SortSet(PositiveMetaIdxs(tis, lab) \cup keep) :
                            keep \in NegativeChoices(tis, lab, factor)}}
        ELSE {<<iis, tis>>}

----------------------------------------------------------------------------
\* generate_sequences

\* The stride check that only rejects negative strides.
StrideMalformedNegative(st) == st < 0

\* if stride < 1: raise ValueError('stride must be greater than 0')
StrideMalformed(st) == st < 1

\* n_batches_full, after the adjustment for the residual samples
NBatchesFull(n, bs) == IF n % bs > 0 THEN n \div bs + 1 ELSE n \div bs

NResidualSamples(n, bs) == n % bs

\* The batch of the loop `for b in range(n_batches_full)`.
Batch(iis, tis, bb, bs) == <<Slice(iis, bb * bs, bb * bs + bs), Slice(tis, bb * bs, bb * bs + bs)>>

\* The batch of the last samples.
ResidualBatch(iis, tis, nres) ==
    <<Slice(iis, Len(tis) - nres, Len(iis)), Slice(tis, Len(tis) - nres, Len(tis))>>

\* The generator object as created: no statement of the body has run.  The
\* explored inputs have length >= 1, start_index >= 0, sampling_rate >= 1 and
\* batch_size >= 1 (batch_size = -1, which the body turns into np.inf, is not
\* among them).
Init ==
    /\ len_data \in 1..MaxLen
    /\ length \in 1..MaxLen
    /\ target_steps_ahead \in 0..MaxAhead
    /\ sampling_rate \in 1..MaxRate
    /\ stride \in Strides
    /\ start_index \in 0..MaxStart
    /\ shuffle \in BOOLEAN
    /\ epochs \in 0..MaxEpochs
    /\ batch_size \in 1..MaxBatch
    /\ subsample \in BOOLEAN
    /\ subsampling_factor \in 1..MaxFactor
    /\ pc = "created"
    /\ err = ""
    /\ inputs_indices_seq = <<>>
    /\ target_indices_seq = <<>>
    /\ orig_inputs = <<>>
    /\ orig_targets = <<>>
    /\ n_batches_full = 0
    /\ n_residual_samples = 0
    /\ e = 0
    /\ b = 0
    /\ first = 0 - 1
    /\ out = <<>>
    /\ n_yielded = 0
    /\ epoch_out = <<>>

\* First next(): the stride is malformed, ValueError.
RaiseStride ==
    /\ pc = "created"
    /\ StrideMalformed(stride)
    /\ pc' = "raised"
    /\ err' = "ValueError: stride must be greater than 0"
    /\ UNCHANGED <<params, arrays, origs, counts, e, b, first, out, n_yielded, epoch_out>>

\* First next(): generate_indices raises.
RaiseIndices ==
    /\ pc = "created"
    /\ ~StrideMalformed(stride)
    /\ GenerateIndicesError(len_data, length, target_steps_ahead, stride, start_index) # ""
    /\ pc' = "raised"
    /\ err' = GenerateIndicesError(len_data, length, target_steps_ahead, stride, start_index)
    /\ UNCHANGED <<params, arrays, origs, counts, e, b, first, out, n_yielded, epoch_out>>

\* First next(): the indices are computed (from the values of targets[0] when
\* subsampling) and the number of batches is yielded.
YieldNBatches ==
    /\ pc = "created"
    /\ ~StrideMalformed(stride)
    /\ GenerateIndicesError(len_data, length, target_steps_ahead, stride, start_index) = ""
    /\ \E r \in UNION {GenerateIndices(len_data, lab, length, target_steps_ahead,
                                         sampling_rate, stride, start_index,
                                         subsample, subsampling_factor) :
                          lab \in Labels(len_data)} :
        /\ inputs_indices_seq' = r[1]
        /\ target_indices_seq' = r[2]
        /\ orig_inputs' = r[1]
        /\ orig_targets' = r[2]
        /\ n_batches_full' = NBatchesFull(Len(r[2]), batch_size)
        /\ n_residual_samples' = NResidualSamples(Len(r[2]), batch_size)
        /\ first' = NBatchesFull(Len(r[2]), batch_size)
    /\ pc' = "yielded_n"
    /\ UNCHANGED <<params, err, e, b, out, n_yielded, epoch_out>>

\* The generator is suspended at the last yield of epoch e (or at the yield of
\* the number of batches, before epoch 0).
AtEpochEnd ==
    \/ pc = "yielded_n"
    \/ pc = "yielded_residual"
    \/ pc = "yielded_batch" /\ b + 1 >= n_batches_full /\ n_residual_samples = 0

\* The epoch the body enters when it leaves AtEpochEnd.
NextEpoch == IF pc = "yielded_n" THEN 0 ELSE e + 1

\* next(): an epoch begins (with its shuffle) and yields its first batch.
YieldFirstBatchOfEpoch ==
    /\ AtEpochEnd
    /\ NextEpoch < epochs
    /\ n_batches_full > 0
    /\ \E perm \in IF shuffle THEN Permutations0(Len(target_indices_seq))
                   ELSE {[k \in 1..Len(target_indices_seq) |-> k - 1]} :
        LET iis == Take(inputs_indices_seq, perm)
            tis == Take(target_indices_seq, perm)
        IN  /\ inputs_indices_seq' = iis
            /\ target_indices_seq' = tis
            /\ out' = Batch(iis, tis, 0, batch_size)
            /\ epoch_out' = Pairs(Batch(iis, tis, 0, batch_size)[1],
                                  Batch(iis, tis, 0, batch_size)[2])
    /\ e' = NextEpoch
    /\ b' = 0
    /\ n_yielded' = n_yielded + 1
    /\ pc' = "yielded_batch"
    /\ UNCHANGED <<params, err, origs, counts, first>>

\* next(): the batch loop yields its next batch.
YieldBatch ==
    /\ pc = "yielded_batch"
    /\ b + 1 < n_batches_full
    /\ b' = b + 1
    /\ out' = Batch(inputs_indices_seq, target_indices_seq, b + 1, batch_size)
    /\ epoch_out' = epoch_out \o Pairs(out'[1], out'[2])
    /\ n_yielded' = n_yielded + 1
    /\ UNCHANGED <<params, pc, err, arrays, origs, counts, e, first>>

\* next(): the batch loop is over and the last samples are yielded.
YieldResidual ==
    /\ pc = "yielded_batch"
    /\ b + 1 >= n_batches_full
    /\ n_residual_samples > 0
    /\ out' = ResidualBatch(inputs_indices_seq, target_indices_seq, n_residual_samples)
    /\ epoch_out' = epoch_out \o Pairs(out'[1], out'[2])
    /\ n_yielded' = n_yielded + 1
    /\ pc' = "yielded_residual"
    /\ UNCHANGED <<params, err, arrays, origs, counts, e, b, first>>

\* next(): the epoch loop is over (the epochs left, if any, yield nothing):
\* StopIteration.
StopIteration ==
    /\ AtEpochEnd
    /\ (NextEpoch >= epochs \/ n_batches_full = 0)
    /\ pc' = "done"
    /\ UNCHANGED <<params, err, arrays, origs, counts, e, b, first, out, n_yielded, epoch_out>>

Next ==
    \/ RaiseStride
    \/ RaiseIndices
    \/ YieldNBatches
    \/ YieldFirstBatchOfEpoch
    \/ YieldBatch
    \/ YieldResidual
    \/ StopIteration

Spec == Init /\ [][Next]_vars

----------------------------------------------------------------------------
\* The generator has been advanced at least once and did not raise.
IndicesComputed == pc \notin {"created", "raised"}

\* C1: with start_index = 0, target_steps_ahead = 0, subsample = False, any
\* stride S >= 1, window length W >= 1 and data length L >= W, generate_indices
\* does not raise and returns floor((L-W)/S)+1 windows and as many target
\* indices.
C1_NumberOfWindows ==
    (/\ pc # "created"
     /\ stride >= 1
     /\ start_index = 0
     /\ target_steps_ahead = 0
     /\ ~subsample
     /\ len_data >= length)
    => /\ pc # "raised"
       /\ Len(orig_inputs) = (len_data - length) \div stride + 1
       /\ Len(orig_targets) = (len_data - length) \div stride + 1
       /\ Len(inputs_indices_seq) = Len(orig_inputs)
       /\ Len(target_indices_seq) = Len(orig_targets)

\* A run of C1 where the floor matters: L - W = 3 and S = 2 give 2 windows.
C1_Witness ==
    /\ pc = "yielded_n"
    /\ stride = 2
    /\ start_index = 0
    /\ target_steps_ahead = 0
    /\ ~subsample
    /\ len_data - length = 3
    /\ Len(orig_inputs) = 2
    /\ Len(orig_targets) = 2

\* C2: for every window returned by generate_indices (subsample = False,
\* sampling_rate = 1, stride >= 1, target_steps_ahead >= 0) that covers the
\* positions i .. i+length-1, the target index paired with it is
\* i + length + target_steps_ahead.
C2_TargetIndexOfWindow ==
    (IndicesComputed /\ ~subsample /\ sampling_rate = 1)
    => \A k \in 1..Len(orig_inputs) :
          /\ orig_inputs[k] = ARange(orig_inputs[k][1], orig_inputs[k][1] + length, 1)
          /\ orig_targets[k] = orig_inputs[k][1] + length + target_steps_ahead

\* C3: the first value yielded is the number of batches of one epoch: when
\* the generator terminates it has yielded epochs x (first value) batches
\* after the first value, and never more than that before.
C3_BatchesPerEpoch ==
    /\ IndicesComputed => n_yielded <= epochs * first
    /\ pc = "done" => n_yielded = epochs * first

\* s is a prefix of t.
IsPrefix(s, t) == Len(s) <= Len(t) /\ s = SubSeq(t, 1, Len(s))

\* C4: with shuffle = False the batches of an epoch, concatenated in the
\* order they are yielded, are the generated (window, target) sequences in
\* temporal order, each exactly once: a prefix of them while the epoch runs
\* and all of them when the generator has terminated after its last epoch.
C4_TemporalOrderEachOnce ==
    (IndicesComputed /\ ~shuffle)
    => /\ IsPrefix(epoch_out, Pairs(orig_inputs, orig_targets))
       /\ (pc = "done" /\ epochs >= 1)
            => epoch_out = Pairs(orig_inputs, orig_targets)

\* C5: for any stride < 1 the first next() raises the ValueError of the
\* stride check, before any indices are computed and before anything (the
\* number of batches included) is yielded.
C5_MalformedStrideRaises ==
    (stride < 1 /\ pc # "created")
    => /\ pc = "raised"
       /\ err = "ValueError: stride must be greater than 0"
       /\ first = 0 - 1
       /\ n_yielded = 0
       /\ orig_inputs = <<>>
       /\ orig_targets = <<>>

\* A run of C5: the generator was advanced with stride 0 and raised.
C5_Witness ==
    /\ pc = "raised"
    /\ stride = 0
    /\ err = "ValueError: stride must be greater than 0"

====
